---------------------------- MODULE Spec2Model ----------------------------
(***************************************************************************)
(* Model of libs/VideoRendering.py of MidiAssembleVideo: the render-window *)
(* filter, the global clip cache, VideoComposer and VideoRendering.        *)
(*                                                                         *)
(* Times are integers (ticks).  Python objects that the code copies or     *)
(* shares (the note dictionaries) live in a heap and are named by          *)
(* reference, so that copying and in-place mutation are different things.  *)
(***************************************************************************)
EXTENDS Integers, Sequences, FiniteSets, TLC

VARIABLES
    heap,         \* the note dictionaries, by reference (index)
    notes,        \* the caller's list `notes`: a sequence of references
    given,        \* history: the events as the parser produced them
    window,       \* start_render_time / end_render_time of the call
    filtered,     \* VideoRendering's local filtered_notes (references)
    refiltered,   \* result of filtering filtered_notes once more
    phase,        \* what the caller has done last
    files,        \* note names whose <video_dir>/<name>.mp4 exists
    VIDEO_CACHE,  \* the module global VIDEO_CACHE: path -> original clip
    composer,     \* the VideoComposer instance last created
    last,         \* outcome of the last call (exception, effects)
    call,         \* arguments of the last call if it was VideoRendering or
                  \* add_clip, with the composer as add_clip found it
    chords,       \* VideoRendering's local note_groups, by position in
                  \* filtered_notes
    corners,      \* corner_size and corner_positions as last computed
    final_clip    \* the composition the last call handed to
                  \* write_videofile, bottom layer first

vars == <<heap, notes, given, window, filtered, refiltered, phase,
          files, VIDEO_CACHE, composer, last, call, chords, corners,
          final_clip>>

(***************************************************************************)
(* Bounds of the model.                                                    *)
(***************************************************************************)
MaxTime == 4         \* filter inputs: times range over 0..MaxTime
MaxNotes == 2        \* filter inputs: at most MaxNotes events
MaxRenderNotes == 2  \* render inputs: at most MaxRenderNotes events
MaxClips == 2        \* direct use of a composer: at most MaxClips add_clip calls
MaxGroupNotes == 3   \* grouping inputs: at most MaxGroupNotes filtered events
MaxSide == 6         \* layout inputs: output width and height in 1..MaxSide
RatioSteps == 10     \* layout inputs: chord_size_ratio in steps of 1/RatioSteps
MaxChordNotes == 7   \* chord inputs: at most MaxChordNotes events

(***************************************************************************)
(* Python values.                                                          *)
(***************************************************************************)
None == <<>>
Some(v) == <<v>>
IsNotNone(o) == o # None
Val(o) == o[1]

Max(a, b) == IF a >= b THEN a ELSE b
Min(a, b) == IF a <= b THEN a ELSE b

\* F(v), with v evaluated once before F is applied (a local variable
\* holding a computed value)
With(v, F(_)) == CHOOSE r \in {F(x) : x \in {v}} : TRUE

Deref(h, l) == [i \in 1..Len(l) |-> h[l[i]]]

\* Variant of NoteCopy: no copy at all, the same dictionary
NoteCopyAlias(h, r) == [heap |-> h, ref |-> r]

\* dict.copy(): a new dictionary with the same items
NoteCopy(h, r) == [heap |-> Append(h, h[r]), ref |-> Len(h) + 1]

\* d[key] = v
SetItem(h, r, key, v) == [h EXCEPT ![r] = [@ EXCEPT ![key] = v]]

(***************************************************************************)
(* The render-window filter, VideoRendering lines 115-160.                 *)
(***************************************************************************)
\* Variant of OutsideWindow: strict comparisons, so that a note touching a
\* bound is kept
OutsideWindowInclusive(note_start, note_end, start_render_time, end_render_time) ==
    (IsNotNone(end_render_time) /\ note_start > Val(end_render_time))
    \/ note_end < start_render_time

\* Line 128: the note lies wholly outside the window
OutsideWindow(note_start, note_end, start_render_time, end_render_time) ==
    (IsNotNone(end_render_time) /\ note_start >= Val(end_render_time))
    \/ note_end <= start_render_time

\* Line 135
AdjustedStart(note_start, start_render_time) ==
    Max(note_start, start_render_time) + (-start_render_time)

\* Variant of AdjustedEnd: the end clipped but not moved by time_offset
AdjustedEndAbsolute(note_end, start_render_time, end_render_time) ==
    IF IsNotNone(end_render_time) THEN Min(note_end, Val(end_render_time))
    ELSE note_end

\* Lines 139-144: the new end_time
AdjustedEnd(note_end, start_render_time, end_render_time) ==
    LET time_offset == -start_render_time
        adjusted_end == IF IsNotNone(end_render_time)
                        THEN Min(note_end, Val(end_render_time))
                        ELSE note_end
    IN  adjusted_end + time_offset

RECURSIVE FilterStartLoop(_, _, _, _, _, _)
FilterStartLoop(h, out, ns, i, start_render_time, end_render_time) ==
    IF i > Len(ns) THEN [heap |-> h, filtered |-> out]
    ELSE
      LET note == h[ns[i]]
          note_end == note.end_time
          note_start == note.start_time
      IN  IF OutsideWindow(note_start, note_end, start_render_time, end_render_time)
          THEN FilterStartLoop(h, out, ns, i + 1, start_render_time, end_render_time)
          ELSE
            LET c == NoteCopy(h, ns[i])
                h1 == SetItem(c.heap, c.ref, "start_time",
                              AdjustedStart(note_start, start_render_time))
                h2 == SetItem(h1, c.ref, "end_time",
                              AdjustedEnd(note_end, start_render_time, end_render_time))
                h3 == SetItem(h2, c.ref, "duration",
                              h2[c.ref].end_time - h2[c.ref].start_time)
            IN  With(h3, LAMBDA hh :
                     FilterStartLoop(hh, Append(out, Len(hh)), ns, i + 1,
                                     start_render_time, end_render_time))

\* Variant of FilterEndLoop: line 159 left out, the duration not recomputed
RECURSIVE FilterEndLoopStaleDuration(_, _, _, _)
FilterEndLoopStaleDuration(h, out, i, end_render_time) ==
    IF i > Len(out) THEN [heap |-> h, filtered |-> out]
    ELSE
      LET note == h[out[i]]
      IN  IF note.end_time > end_render_time
          THEN LET c == NoteCopy(h, out[i])
                   h1 == SetItem(c.heap, c.ref, "end_time", end_render_time)
               IN  With(h1, LAMBDA hh :
                        FilterEndLoopStaleDuration(hh, [out EXCEPT ![i] = Len(hh)],
                                                   i + 1, end_render_time))
          ELSE FilterEndLoopStaleDuration(h, out, i + 1, end_render_time)

\* Lines 153-160
RECURSIVE FilterEndLoop(_, _, _, _)
FilterEndLoop(h, out, i, end_render_time) ==
    IF i > Len(out) THEN [heap |-> h, filtered |-> out]
    ELSE
      LET note == h[out[i]]
      IN  IF note.end_time > end_render_time
          THEN LET c == NoteCopy(h, out[i])
                   h1 == SetItem(c.heap, c.ref, "end_time", end_render_time)
                   h2 == SetItem(h1, c.ref, "duration",
                                 h1[c.ref].end_time - h1[c.ref].start_time)
               IN  With(h2, LAMBDA hh :
                        FilterEndLoop(hh, [out EXCEPT ![i] = Len(hh)], i + 1,
                                      end_render_time))
          ELSE FilterEndLoop(h, out, i + 1, end_render_time)

\* The filter as a whole: the heap and the caller's list after it, and
\* filtered_notes.
TimeWindowFilter(h, ns, start_render_time, end_render_time) ==
    IF IsNotNone(start_render_time)
    THEN LET r == FilterStartLoop(h, <<>>, ns, 1, Val(start_render_time), end_render_time)
         IN  [heap |-> r.heap, notes |-> ns, filtered |-> r.filtered]
    ELSE LET copy == ns   \* notes.copy(): a new list, the same references
         IN  IF IsNotNone(end_render_time)
             THEN LET r == FilterEndLoop(h, copy, 1, Val(end_render_time))
                  IN  [heap |-> r.heap, notes |-> ns, filtered |-> r.filtered]
             ELSE [heap |-> h, notes |-> ns, filtered |-> copy]

(***************************************************************************)
(* The media library (moviepy) and the file system, as the code uses them. *)
(***************************************************************************)
Names == {"C4", "D4"}

\* os.path.join(video_dir, f"{note_name}.mp4")
VideoPath(video_dir, note_name) == <<video_dir, note_name, "mp4">>

VideoDir == "sounds"
AllPaths == {VideoPath(VideoDir, n) : n \in Names}

\* What decoding a source file yields: its frame size and its length.
NaturalSize(path) == IF path[2] = "C4" THEN <<10, 5>> ELSE <<5, 5>>
NaturalDuration(path) == IF path[2] = "C4" THEN 2 ELSE 1

\* VideoFileClip(path)
VideoFileClip(path) ==
    [path |-> path, size |-> NaturalSize(path), duration |-> NaturalDuration(path),
     start |-> 0, position |-> <<0, 0>>, closed |-> FALSE]

EmptyCache == [p \in {} |-> VideoFileClip(<<VideoDir, "C4", "mp4">>)]

CloseClip(clip) == [clip EXCEPT !.closed = TRUE]

(***************************************************************************)
(* class VideoComposer                                                     *)
(***************************************************************************)
\* VideoComposer.__init__ with the default output_size=None
NewComposer == [clips |-> <<>>, output_size |-> None, max_end_time |-> 0]

\* VideoComposer._get_cached_clip: the cache after the call and the copy
GetCachedClip(cache, video_path) ==
    LET cache1 == IF video_path \notin DOMAIN cache
                  THEN cache @@ (video_path :> VideoFileClip(video_path))
                  ELSE cache
    IN  [cache |-> cache1, clip |-> cache1[video_path]]

\* Variant of AddClip: set_duration(duration), without the min of line 32
AddClipUntrimmed(c, cache, fs, video_path, start_time, duration, position, custom_size) ==
    IF video_path \notin fs
    THEN [c |-> c, cache |-> cache, exc |-> "FileNotFoundError"]
    ELSE
      LET g == GetCachedClip(cache, video_path)
          clip1 == IF IsNotNone(duration)
                   THEN [g.clip EXCEPT !.duration = Val(duration)]
                   ELSE g.clip
          clip2 == [clip1 EXCEPT !.start = start_time, !.position = position]
          output_size == IF c.output_size = None THEN Some(clip2.size)
                         ELSE c.output_size
          target_size == IF IsNotNone(custom_size) THEN Val(custom_size)
                         ELSE Val(output_size)
          clip3 == IF clip2.size # target_size
                   THEN [clip2 EXCEPT !.size = target_size]
                   ELSE clip2
          end_time == start_time + clip3.duration
          max_end_time == IF end_time > c.max_end_time THEN end_time
                          ELSE c.max_end_time
      IN  [c |-> [clips |-> Append(c.clips, clip3),
                  output_size |-> output_size,
                  max_end_time |-> max_end_time],
           cache |-> g.cache, exc |-> "none"]

\* VideoComposer.add_clip
AddClip(c, cache, fs, video_path, start_time, duration, position, custom_size) ==
    IF video_path \notin fs
    THEN [c |-> c, cache |-> cache, exc |-> "FileNotFoundError"]
    ELSE
      LET g == GetCachedClip(cache, video_path)
          clip1 == IF IsNotNone(duration)
                   THEN [g.clip EXCEPT !.duration = Min(Val(duration), g.clip.duration)]
                   ELSE g.clip
          clip2 == [clip1 EXCEPT !.start = start_time, !.position = position]
          output_size == IF c.output_size = None THEN Some(clip2.size)
                         ELSE c.output_size
          target_size == IF IsNotNone(custom_size) THEN Val(custom_size)
                         ELSE Val(output_size)
          clip3 == IF clip2.size # target_size
                   THEN [clip2 EXCEPT !.size = target_size]
                   ELSE clip2
          end_time == start_time + clip3.duration
          max_end_time == IF end_time > c.max_end_time THEN end_time
                          ELSE c.max_end_time
      IN  [c |-> [clips |-> Append(c.clips, clip3),
                  output_size |-> output_size,
                  max_end_time |-> max_end_time],
           cache |-> g.cache, exc |-> "none"]

\* ColorClip(size, color, duration)
ColorClip(size, duration) ==
    [path |-> <<"", "ColorClip", "">>, size |-> size, duration |-> duration,
     start |-> 0, position |-> <<0, 0>>, closed |-> FALSE]

\* Variant of Composite: the background laid over the clips
CompositeBackgroundLast(c) ==
    c.clips \o <<ColorClip(Val(c.output_size), c.max_end_time)>>

\* Lines 60-67: CompositeVideoClip([background] + self.clips), bottom first
Composite(c) ==
    <<ColorClip(Val(c.output_size), c.max_end_time)>> \o c.clips

\* Variant of Save: lines 86-89 left out, the cache kept
SaveKeepsCache(c, cache, encode_ok) ==
    IF c.clips = <<>>
    THEN [c |-> c, cache |-> cache, exc |-> "ValueError",
          background |-> FALSE, wrote |-> FALSE, releases |-> 0,
          final_clip |-> <<>>]
    ELSE IF ~encode_ok
    THEN [c |-> c, cache |-> cache, exc |-> "EncodeError",
          background |-> TRUE, wrote |-> FALSE, releases |-> 0,
          final_clip |-> Composite(c)]
    ELSE [c |-> [c EXCEPT !.clips = [i \in 1..Len(c.clips) |-> CloseClip(c.clips[i])]],
          cache |-> cache, exc |-> "none",
          background |-> TRUE, wrote |-> TRUE, releases |-> 0,
          final_clip |-> Composite(c)]

\* VideoComposer.save; encode_ok: whether write_videofile returns normally
Save(c, cache, encode_ok) ==
    IF c.clips = <<>>
    THEN [c |-> c, cache |-> cache, exc |-> "ValueError",
          background |-> FALSE, wrote |-> FALSE, releases |-> 0,
          final_clip |-> <<>>]
    ELSE IF ~encode_ok
    THEN [c |-> c, cache |-> cache, exc |-> "EncodeError",
          background |-> TRUE, wrote |-> FALSE, releases |-> 0,
          final_clip |-> Composite(c)]
    ELSE [c |-> [c EXCEPT !.clips = [i \in 1..Len(c.clips) |-> CloseClip(c.clips[i])]],
          cache |-> EmptyCache, exc |-> "none",
          background |-> TRUE, wrote |-> TRUE, releases |-> 1,
          final_clip |-> Composite(c)]

\* preload_video_cache
PreloadVideoCache(cache, fs, note_names, video_dir) ==
    LET new == {p \in {VideoPath(video_dir, n) : n \in note_names} :
                   p \notin DOMAIN cache /\ p \in fs}
    IN  [p \in DOMAIN cache \cup new |->
            IF p \in DOMAIN cache THEN cache[p] ELSE VideoFileClip(p)]

(***************************************************************************)
(* def VideoRendering                                                      *)
(***************************************************************************)
\* Ticks per 0.0001 s, the precision of round(start_time, 4).  Odd, so
\* that no tick value lies halfway between two keys.
Quantum == 3

\* Variant of Round4: truncation to the key below
Round4Floor(t) == (t \div Quantum) * Quantum

\* round(t, 4), in ticks
Round4(t) == ((2 * t + Quantum) \div (2 * Quantum)) * Quantum

\* note_groups: the keys in order of first insertion, each with its list
RECURSIVE GroupNotes(_, _, _, _)
GroupNotes(h, ns, i, groups) ==
    IF i > Len(ns) THEN groups
    ELSE
      LET start_key == Round4(h[ns[i]].start_time)
          at == {k \in 1..Len(groups) : groups[k].key = start_key}
      IN  IF at = {}
          THEN GroupNotes(h, ns, i + 1,
                          Append(groups, [key |-> start_key, members |-> <<ns[i]>>]))
          ELSE LET k == CHOOSE x \in at : TRUE
               IN  GroupNotes(h, ns, i + 1,
                              [groups EXCEPT ![k].members = Append(@, ns[i])])

\* Variant of IntOfProduct: rounding up
IntOfProductCeil(n, ratio) == (n * ratio[1] + ratio[2] - 1) \div ratio[2]

\* int(x) of the product of an integer and the ratio num/den
IntOfProduct(n, ratio) == (n * ratio[1]) \div ratio[2]

\* corner_size, lines 197-199
CornerSize(output_size, chord_size_ratio) ==
    <<IntOfProduct(output_size[1], chord_size_ratio),
      IntOfProduct(output_size[2], chord_size_ratio)>>

\* Variant of CornerPositions: top-right and bottom-left exchanged
CornerPositionsColumnFirst(output_size, corner_size) ==
    << <<0, 0>>,
       <<0, output_size[2] - corner_size[2]>>,
       <<output_size[1] - corner_size[1], 0>>,
       <<output_size[1] - corner_size[1], output_size[2] - corner_size[2]>> >>

\* corner_positions, lines 202-207
CornerPositions(output_size, corner_size) ==
    << <<0, 0>>,
       <<output_size[1] - corner_size[1], 0>>,
       <<0, output_size[2] - corner_size[2]>>,
       <<output_size[1] - corner_size[1], output_size[2] - corner_size[2]>> >>

\* Variant of RequestedDuration: the sustain left out
RequestedDurationNoSustain(note, sustained) == note.duration

\* Line 212: duration = note['duration'] + sustained
RequestedDuration(note, sustained) == note.duration + sustained

\* The inner loop, lines 210-243: member i (0-based) of one group onwards.
\* st = [c, cache, exc, dropped]
RECURSIVE PlaceMembers(_, _, _, _, _, _, _, _, _)
PlaceMembers(st, h, fs, video_dir, group_notes, i, sustained, corner_positions, corner_size) ==
    IF i >= Len(group_notes) \/ st.exc # "none" THEN st
    ELSE
      LET note == h[group_notes[i + 1]]
          num_notes == Len(group_notes)
          start_time == h[group_notes[1]].start_time
          duration == RequestedDuration(note, sustained)
          video_path == VideoPath(video_dir, note.note_name)
          full == AddClip(st.c, st.cache, fs, video_path, start_time,
                          Some(duration), <<0, 0>>, None)
          st1 ==
            IF num_notes = 1 \/ i = 0
            THEN [st EXCEPT !.c = full.c, !.cache = full.cache, !.exc = full.exc]
            ELSE IF i - 1 < Len(corner_positions)
            THEN LET a == AddClip(st.c, st.cache, fs, video_path, start_time,
                                  Some(duration), corner_positions[i],
                                  Some(corner_size))
                 IN  [st EXCEPT !.c = a.c, !.cache = a.cache, !.exc = a.exc]
            ELSE [st EXCEPT !.dropped = @ + 1]
      IN  With(st1, LAMBDA s1 :
               PlaceMembers(s1, h, fs, video_dir, group_notes, i + 1, sustained,
                            corner_positions, corner_size))

\* The outer loop, lines 182-243: group g onwards.
RECURSIVE PlaceGroups(_, _, _, _, _, _, _, _)
PlaceGroups(st, h, fs, video_dir, groups, g, sustained, chord_size_ratio) ==
    IF g > Len(groups) \/ st.exc # "none" THEN st
    ELSE
      LET group_notes == groups[g].members
          sample_path == VideoPath(video_dir, h[group_notes[1]].note_name)
      IN  IF st.c.output_size = None /\ sample_path \notin DOMAIN st.cache
          THEN [st EXCEPT !.exc = "KeyError"]
          ELSE
            LET c1 == IF st.c.output_size = None
                      THEN [st.c EXCEPT !.output_size = Some(st.cache[sample_path].size)]
                      ELSE st.c
                output_size == Val(c1.output_size)
                corner_size == CornerSize(output_size, chord_size_ratio)
                st1 == PlaceMembers([st EXCEPT !.c = c1], h, fs, video_dir,
                                    group_notes, 0, sustained,
                                    CornerPositions(output_size, corner_size),
                                    corner_size)
            IN  With(st1, LAMBDA s1 :
                     PlaceGroups(s1, h, fs, video_dir, groups, g + 1, sustained,
                                 chord_size_ratio))

\* note_groups with each member named by its position in filtered_notes
GroupPositions(groups, fl) ==
    [g \in 1..Len(groups) |->
        [key |-> groups[g].key,
         members |-> [m \in 1..Len(groups[g].members) |->
                         CHOOSE p \in 1..Len(fl) : fl[p] = groups[g].members[m]]]]

\* Lines 162-247: what follows the filter, f being its result.
RenderFiltered(f, cache, fs, video_dir, sustained, chord_size_ratio, encode_ok) ==
    LET base == [heap |-> f.heap, notes |-> f.notes, filtered |-> f.filtered,
                 cache |-> cache, c |-> NewComposer, exc |-> "none",
                 empty |-> FALSE, background |-> FALSE, wrote |-> FALSE,
                 releases |-> 0, dropped |-> 0, groups |-> <<>>,
                 final_clip |-> <<>>]
    IN  IF f.filtered = <<>>
        THEN [base EXCEPT !.empty = TRUE]
        ELSE
          LET unique_note_names ==
                  {f.heap[f.filtered[i]].note_name : i \in 1..Len(f.filtered)}
              cache1 == PreloadVideoCache(cache, fs, unique_note_names, video_dir)
              note_groups == GroupNotes(f.heap, f.filtered, 1, <<>>)
              positions == GroupPositions(note_groups, f.filtered)
          IN  With(PlaceGroups([c |-> NewComposer, cache |-> cache1,
                                exc |-> "none", dropped |-> 0],
                               f.heap, fs, video_dir, note_groups, 1, sustained,
                               chord_size_ratio),
                   LAMBDA st :
                     IF st.exc # "none"
                     THEN [base EXCEPT !.cache = st.cache, !.c = st.c,
                                       !.exc = st.exc, !.dropped = st.dropped,
                                       !.groups = positions]
                     ELSE LET s == Save(st.c, st.cache, encode_ok)
                          IN  [base EXCEPT !.cache = s.cache, !.c = s.c,
                                           !.exc = s.exc,
                                           !.background = s.background,
                                           !.wrote = s.wrote,
                                           !.releases = s.releases,
                                           !.dropped = st.dropped,
                                           !.groups = positions,
                                           !.final_clip = s.final_clip])

\* VideoRendering as a whole.  The result names everything the call leaves
\* behind: the heap and the caller's list, the global cache, the local
\* filtered_notes and composer, how the call ended and what it did.
VideoRendering(h, ns, cache, fs, video_dir, sustained, chord_size_ratio, start_render_time, end_render_time, encode_ok) ==
    With(TimeWindowFilter(h, ns, start_render_time, end_render_time),
         LAMBDA f : RenderFiltered(f, cache, fs, video_dir, sustained,
                                   chord_size_ratio, encode_ok))

(***************************************************************************)
(* Inputs.                                                                 *)
(***************************************************************************)
SeqsUpTo(S, n) == UNION {[1..k -> S] : k \in 0..n}

\* A well-formed event of the parser (parse_midi.py): 0 <= start <= end,
\* duration = end - start.
Event(name, s, e) ==
    [note_name |-> name, start_time |-> s, end_time |-> e, duration |-> e - s]

FilterEvents ==
    {Event("C4", p[1], p[2]) :
        p \in {q \in (0..MaxTime) \X (0..MaxTime) : q[1] <= q[2]}}

WindowsOver(T) ==
    {w \in [start : {None} \cup {Some(t) : t \in T},
            end : {None} \cup {Some(t) : t \in T}] :
        (IsNotNone(w.start) /\ IsNotNone(w.end)) => Val(w.start) < Val(w.end)}

\* Render inputs: starts 0 and 1 round to the same key, 4 to another.
RenderIntervals == {<<0, 2>>, <<1, 2>>, <<4, 5>>}
RenderEvents == {Event(n, iv[1], iv[2]) : n \in Names, iv \in RenderIntervals}
RenderWindows == WindowsOver({0, 1, 4})
Sustains == {0, 1}
Ratios == {<<2, 5>>}     \* chord_size_ratio 0.4, the default

NoWindow == [start |-> None, end |-> None]

Outcome(op, exc, empty, background, wrote, releases, dropped, on_saved, stale) ==
    [op |-> op, exc |-> exc, empty |-> empty, background |-> background,
     wrote |-> wrote, releases |-> releases, dropped |-> dropped,
     on_saved |-> on_saved, stale |-> stale]

\* Before any call: nothing recorded
NothingRecorded ==
    /\ call = <<>>
    /\ chords = <<>>
    /\ corners = <<>>
    /\ final_clip = <<>>

NoCall == Outcome("none", "none", FALSE, FALSE, FALSE, 0, 0, FALSE, FALSE)

Refs(l) == [i \in 1..Len(l) |-> i]

\* Grouping inputs: starts in any order, over one key and the next two
GroupStarts == 0..(2 * Quantum - 1)
GroupEvents == {Event("C4", t, t + 1) : t \in GroupStarts}

\* Chord inputs: two notes sounding together and a later one
ChordEvents == {Event("C4", 0, 1), Event("D4", 0, 1), Event("C4", 4, 5)}

\* add_clip inputs: no duration, one no clip falls short of, one no clip
\* reaches
Durations == {None, Some(1), Some(3)}

\* Layout inputs: the ratios 0, 1/RatioSteps, ..., 1
LayoutRatios == {<<n, RatioSteps>> : n \in 0..RatioSteps}

(***************************************************************************)
(* Repeated renders of one parsed note list (main.py).                     *)
(***************************************************************************)
Init ==
    /\ given \in SeqsUpTo(RenderEvents, MaxRenderNotes)
    /\ heap = given
    /\ notes = Refs(given)
    /\ window = NoWindow
    /\ filtered = <<>>
    /\ refiltered = <<>>
    /\ phase = "idle"
    /\ files \in SUBSET AllPaths
    /\ VIDEO_CACHE = EmptyCache
    /\ composer = NewComposer
    /\ last = NoCall
    /\ NothingRecorded

\* One call of VideoRendering, from entry to return or raise.  What the
\* caller holds afterwards is its own objects; the locals of the call are
\* kept as they were at its end.
VideoRenderingCall ==
    \E w \in RenderWindows, sustained \in Sustains, ratio \in Ratios,
       encode_ok \in BOOLEAN :
        \E r \in {VideoRendering(heap, notes, VIDEO_CACHE, files, VideoDir,
                                sustained, ratio, w.start, w.end, encode_ok)} :
            /\ heap' = SubSeq(r.heap, 1, Len(heap))
            /\ notes' = r.notes
            /\ window' = w
            /\ filtered' = Deref(r.heap, r.filtered)
            /\ phase' = "rendered"
            /\ VIDEO_CACHE' = r.cache
            /\ composer' = r.c
            /\ last' = Outcome("VideoRendering", r.exc, r.empty, r.background,
                               r.wrote, r.releases, r.dropped, FALSE,
                               DOMAIN VIDEO_CACHE # {})
            /\ call' = [sustained |-> sustained, chord_size_ratio |-> ratio]
            /\ chords' = r.groups
            /\ final_clip' = r.final_clip
            /\ UNCHANGED <<given, refiltered, files, corners>>

Next == VideoRenderingCall

Spec == Init /\ [][Next]_vars

(***************************************************************************)
(* The filter alone, on every bounded input.                               *)
(***************************************************************************)
FilterInit ==
    /\ given \in SeqsUpTo(FilterEvents, MaxNotes)
    /\ heap = given
    /\ notes = Refs(given)
    /\ window \in WindowsOver(0..MaxTime)
    /\ filtered = <<>>
    /\ refiltered = <<>>
    /\ phase = "args"
    /\ files = {}
    /\ VIDEO_CACHE = EmptyCache
    /\ composer = NewComposer
    /\ last = NoCall
    /\ NothingRecorded

\* Lines 115-160 applied to the caller's list.
ApplyFilter ==
    /\ phase = "args"
    /\ \E r \in {TimeWindowFilter(heap, notes, window.start, window.end)} :
        /\ heap' = SubSeq(r.heap, 1, Len(heap))
        /\ notes' = r.notes
        /\ filtered' = Deref(r.heap, r.filtered)
    /\ phase' = "filtered"
    /\ UNCHANGED <<given, window, refiltered, files, VIDEO_CACHE, composer, last,
                   call, chords, corners, final_clip>>

\* The same window in the time base of the filtered list: a set start has
\* become 0, a set end has moved by the start.
RebasedWindow(w) ==
    [start |-> IF IsNotNone(w.start) THEN Some(0) ELSE None,
     end |-> IF IsNotNone(w.end)
             THEN Some(Val(w.end) - (IF IsNotNone(w.start) THEN Val(w.start) ELSE 0))
             ELSE None]

\* Lines 115-160 applied to their own result.
FilterAgain ==
    /\ phase = "filtered"
    /\ \E r \in {TimeWindowFilter(filtered, Refs(filtered),
                                  RebasedWindow(window).start,
                                  RebasedWindow(window).end)} :
        refiltered' = Deref(r.heap, r.filtered)
    /\ phase' = "refiltered"
    /\ UNCHANGED <<heap, notes, given, window, filtered, files, VIDEO_CACHE,
                   composer, last, call, chords, corners, final_clip>>

FilterNext == ApplyFilter \/ FilterAgain

SpecFilter == FilterInit /\ [][FilterNext]_vars

(***************************************************************************)
(* A client using the cache and one composer directly.                     *)
(***************************************************************************)
ComposerInit ==
    /\ given = <<>>
    /\ heap = <<>>
    /\ notes = <<>>
    /\ window = NoWindow
    /\ filtered = <<>>
    /\ refiltered = <<>>
    /\ phase = "fresh"
    /\ files \in SUBSET AllPaths
    /\ VIDEO_CACHE = EmptyCache
    /\ composer = NewComposer
    /\ last = NoCall
    /\ NothingRecorded

unused == <<heap, notes, given, window, filtered, refiltered, chords,
            corners>>

\* composer = VideoComposer()
CreateComposer ==
    /\ composer' = NewComposer
    /\ phase' = "fresh"
    /\ last' = Outcome("__init__", "none", FALSE, FALSE, FALSE, 0, 0, FALSE,
                       DOMAIN VIDEO_CACHE # {})
    /\ call' = <<>>
    /\ final_clip' = <<>>
    /\ UNCHANGED <<unused, files, VIDEO_CACHE>>

\* composer.add_clip(...)
AddClipCall ==
    /\ Len(composer.clips) < MaxClips
    /\ \E video_path \in AllPaths, start_time \in {0, 1},
          duration \in Durations, custom_size \in {None, Some(<<4, 2>>)} :
        \E r \in {AddClip(composer, VIDEO_CACHE, files, video_path, start_time,
                          duration, <<0, 0>>, custom_size)} :
            /\ composer' = r.c
            /\ VIDEO_CACHE' = r.cache
            /\ last' = Outcome("add_clip", r.exc, FALSE, FALSE, FALSE, 0, 0,
                               phase = "saved", DOMAIN VIDEO_CACHE # {})
            /\ call' = [video_path |-> video_path, start_time |-> start_time,
                        duration |-> duration, custom_size |-> custom_size,
                        before |-> composer]
    /\ final_clip' = <<>>
    /\ UNCHANGED <<unused, files, phase>>

\* composer.save(...): from here on the instance has been saved once
SaveCall ==
    /\ \E encode_ok \in BOOLEAN :
        \E r \in {Save(composer, VIDEO_CACHE, encode_ok)} :
            /\ composer' = r.c
            /\ VIDEO_CACHE' = r.cache
            /\ last' = Outcome("save", r.exc, FALSE, r.background, r.wrote,
                               r.releases, 0, phase = "saved",
                               DOMAIN VIDEO_CACHE # {})
            /\ final_clip' = r.final_clip
    /\ phase' = "saved"
    /\ call' = <<>>
    /\ UNCHANGED <<unused, files>>

\* preload_video_cache(note_names, video_dir)
PreloadCall ==
    /\ \E note_names \in SUBSET Names :
        VIDEO_CACHE' = PreloadVideoCache(VIDEO_CACHE, files, note_names, VideoDir)
    /\ last' = Outcome("preload_video_cache", "none", FALSE, FALSE, FALSE, 0, 0,
                       FALSE, DOMAIN VIDEO_CACHE # {})
    /\ call' = <<>>
    /\ final_clip' = <<>>
    /\ UNCHANGED <<unused, files, phase, composer>>

ComposerNext == CreateComposer \/ AddClipCall \/ SaveCall \/ PreloadCall

SpecComposer == ComposerInit /\ [][ComposerNext]_vars

(***************************************************************************)
(* The grouping step of VideoRendering (lines 173-176) on a filtered list. *)
(***************************************************************************)
GroupInit ==
    /\ filtered \in SeqsUpTo(GroupEvents, MaxGroupNotes)
    /\ heap = filtered
    /\ notes = Refs(filtered)
    /\ given = filtered
    /\ window = NoWindow
    /\ refiltered = <<>>
    /\ phase = "filtered"
    /\ files = AllPaths
    /\ VIDEO_CACHE = EmptyCache
    /\ composer = NewComposer
    /\ last = NoCall
    /\ NothingRecorded

\* for note in filtered_notes: note_groups[round(start_time, 4)].append(note)
GroupCall ==
    /\ phase = "filtered"
    /\ phase' = "grouped"
    /\ chords' = GroupPositions(GroupNotes(heap, notes, 1, <<>>), notes)
    /\ UNCHANGED <<heap, notes, given, window, filtered, refiltered, files,
                   VIDEO_CACHE, composer, last, call, corners, final_clip>>

GroupNext == GroupCall

SpecGroup == GroupInit /\ [][GroupNext]_vars

(***************************************************************************)
(* The corner layout of VideoRendering (lines 194-207) for a composer      *)
(* whose output size is set.                                               *)
(***************************************************************************)
LayoutInit ==
    /\ \E output_width \in 1..MaxSide, output_height \in 1..MaxSide :
          composer = [NewComposer EXCEPT
                         !.output_size = Some(<<output_width, output_height>>)]
    /\ given = <<>>
    /\ heap = <<>>
    /\ notes = <<>>
    /\ window = NoWindow
    /\ filtered = <<>>
    /\ refiltered = <<>>
    /\ phase = "sized"
    /\ files = AllPaths
    /\ VIDEO_CACHE = EmptyCache
    /\ last = NoCall
    /\ NothingRecorded

\* output_width, output_height = composer.output_size; corner_size;
\* corner_positions
LayoutCall ==
    /\ phase = "sized"
    /\ \E chord_size_ratio \in LayoutRatios :
          LET output_size == Val(composer.output_size)
              corner_size == CornerSize(output_size, chord_size_ratio)
          IN  corners' = [output_size |-> output_size,
                          chord_size_ratio |-> chord_size_ratio,
                          corner_size |-> corner_size,
                          corner_positions |->
                              CornerPositions(output_size, corner_size)]
    /\ phase' = "laid"
    /\ UNCHANGED <<heap, notes, given, window, filtered, refiltered, files,
                   VIDEO_CACHE, composer, last, call, chords, final_clip>>

LayoutNext == LayoutCall

SpecLayout == LayoutInit /\ [][LayoutNext]_vars

(***************************************************************************)
(* One render of a note list with large chords, every clip file present.   *)
(***************************************************************************)
ChordInit ==
    /\ given \in SeqsUpTo(ChordEvents, MaxChordNotes)
    /\ heap = given
    /\ notes = Refs(given)
    /\ window = NoWindow
    /\ filtered = <<>>
    /\ refiltered = <<>>
    /\ phase = "idle"
    /\ files = AllPaths
    /\ VIDEO_CACHE = EmptyCache
    /\ composer = NewComposer
    /\ last = NoCall
    /\ NothingRecorded

\* VideoRendering(notes, video_dir, sustained, chord_size_ratio=...), from
\* entry to return or raise
ChordCall ==
    /\ phase = "idle"
    /\ \E sustained \in Sustains, ratio \in Ratios, encode_ok \in BOOLEAN :
        \E r \in {VideoRendering(heap, notes, VIDEO_CACHE, files, VideoDir,
                                sustained, ratio, None, None, encode_ok)} :
            /\ heap' = SubSeq(r.heap, 1, Len(heap))
            /\ notes' = r.notes
            /\ filtered' = Deref(r.heap, r.filtered)
            /\ phase' = "rendered"
            /\ VIDEO_CACHE' = r.cache
            /\ composer' = r.c
            /\ last' = Outcome("VideoRendering", r.exc, r.empty, r.background,
                               r.wrote, r.releases, r.dropped, FALSE,
                               DOMAIN VIDEO_CACHE # {})
            /\ call' = [sustained |-> sustained, chord_size_ratio |-> ratio]
            /\ chords' = r.groups
            /\ final_clip' = r.final_clip
            /\ UNCHANGED <<given, window, refiltered, files, corners>>

ChordNext == ChordCall

SpecChord == ChordInit /\ [][ChordNext]_vars

(***************************************************************************)
(* Properties.                                                             *)
(***************************************************************************)
AllClosed(clips) == \A i \in 1..Len(clips) : clips[i].closed
Rendered == last.op = "VideoRendering"

\* C1: when VideoRendering returns or raises, on whatever path, the clip
\* cache is empty and every layer clip of its composer has been closed.
C1_ReleasedOnEveryExit ==
    Rendered => (DOMAIN VIDEO_CACHE = {} /\ AllClosed(composer.clips))

\* C2: no call of VideoRendering starts with a clip cache that an earlier
\* call has filled.
C2_NoEntryFromEarlierCall == Rendered => ~last.stale

\* The 0-based index of filtered event i within its chord (the events
\* before it with the same rounded start).
MemberIndex(evs, i) ==
    Cardinality({j \in 1..(i - 1) :
                    Round4(evs[j].start_time) = Round4(evs[i].start_time)})

\* Some event that gets a layer (member index below 5) names a clip whose
\* file does not exist.
PlacedNoteWithoutFile ==
    \E i \in 1..Len(filtered) :
        /\ MemberIndex(filtered, i) < 5
        /\ VideoPath(VideoDir, filtered[i].note_name) \notin files

\* C3: a render with a placed note whose clip file is missing ends with
\* FileNotFoundError, no other exception, and writes no output.
C3_MissingFileIsFileNotFound ==
    (Rendered /\ PlacedNoteWithoutFile)
        => (last.exc = "FileNotFoundError" /\ ~last.wrote)

\* C4: once save has returned or raised on a composer, no later add_clip
\* or save on that composer succeeds.
C4_SingleUse ==
    ~(last.on_saved /\ last.op \in {"add_clip", "save"} /\ last.exc = "none")

\* C5: save on a composer without layers raises ValueError having built no
\* background, written nothing and released nothing; save on a composer
\* with a layer fails only if the encoder fails, and when it completes it
\* has written the output and released the cache exactly once (every layer
\* clip closed, the cache empty).
C5_SaveNoLayersOrReleaseOnce ==
    last.op = "save" =>
        IF composer.clips = <<>>
        THEN /\ last.exc = "ValueError"
             /\ ~last.background /\ ~last.wrote /\ last.releases = 0
        ELSE /\ last.exc \in {"none", "EncodeError"}
             /\ last.exc = "none" =>
                    /\ last.wrote /\ last.releases = 1
                    /\ DOMAIN VIDEO_CACHE = {}
                    /\ AllClosed(composer.clips)
             /\ last.exc = "EncodeError" => (~last.wrote /\ last.releases = 0)

C5_Witness ==
    /\ last.op = "save" /\ last.exc = "none" /\ last.stale
    /\ Len(composer.clips) >= 1 /\ last.releases = 1

\* What the start-bounded filter is to keep, and what it is to make of it.
KeptByWindow(ev) ==
    /\ ev.end_time > Val(window.start)
    /\ (window.end = None \/ ev.start_time < Val(window.end))

ClippedToWindow(ev) ==
    LET s == Max(ev.start_time, Val(window.start)) - Val(window.start)
        e == (IF window.end # None THEN Min(ev.end_time, Val(window.end))
              ELSE ev.end_time) - Val(window.start)
    IN  [ev EXCEPT !.start_time = s, !.end_time = e, !.duration = e - s]

Filtered == phase \in {"filtered", "refiltered"}

\* C6: with start_render_time set, the filter keeps exactly the events with
\* end_time > start and (end unset or start_time < end), in input order,
\* each rebased and clipped: start' = max(start, ws) - ws, end' = (min(end,
\* we) if we is set else end) - ws, duration' = end' - start'.  Window
\* [2,4) turns {start 1, end 3} into {start 0, end 1, duration 1}.
C6_StartBoundedFilter ==
    (Filtered /\ window.start # None) =>
        LET kept == SelectSeq(given, KeptByWindow)
        IN  /\ filtered = [i \in 1..Len(kept) |-> ClippedToWindow(kept[i])]
            /\ (given = <<Event("C4", 1, 3)>>
                    /\ window = [start |-> Some(2), end |-> Some(4)])
                => filtered = <<Event("C4", 0, 1)>>

C6_Witness ==
    /\ phase = "filtered"
    /\ window = [start |-> Some(2), end |-> Some(4)]
    /\ given = <<Event("C4", 1, 3), Event("C4", 4, 4)>>
    /\ filtered = <<Event("C4", 0, 1)>>

\* C7: with only end_render_time set, the filter keeps every event in input
\* order, start_time untouched, and exactly the events with end_time > end
\* get end_time = end and duration = end - start_time; with neither bound
\* set the output is the input list.
C7_EndOnlyFilter ==
    (Filtered /\ window.start = None) =>
        /\ Len(filtered) = Len(given)
        /\ \A i \in 1..Len(given) :
            IF window.end # None /\ given[i].end_time > Val(window.end)
            THEN filtered[i] =
                    [given[i] EXCEPT !.end_time = Val(window.end),
                                     !.duration = Val(window.end) - given[i].start_time]
            ELSE filtered[i] = given[i]

C7_Witness ==
    /\ phase = "filtered"
    /\ window = [start |-> None, end |-> Some(1)]
    /\ given = <<Event("C4", 0, 1), Event("C4", 2, 3)>>
    /\ filtered[2].end_time = 1

\* C8: every event the filter emits has start_time >= 0, end_time >=
\* start_time and duration = end_time - start_time.
C8_EmittedEventsWellFormed ==
    Filtered =>
        \A i \in 1..Len(filtered) :
            /\ filtered[i].start_time >= 0
            /\ filtered[i].end_time >= filtered[i].start_time
            /\ filtered[i].duration = filtered[i].end_time - filtered[i].start_time

\* C9: the filter leaves the caller's list and every dictionary in it as
\* they were.
C9_InputNotMutated ==
    Filtered => (heap = given /\ notes = Refs(given))

C9_Witness ==
    /\ phase = "filtered"
    /\ window.start # None
    /\ \E i \in 1..Len(filtered) : \A j \in 1..Len(given) : filtered[i] # given[j]

\* C10: filtering the filtered list again with the same window, taken in
\* the rebased time base, changes nothing.
C10_FilterIdempotent == phase = "refiltered" => refiltered = filtered

C10_Witness ==
    /\ phase = "refiltered"
    /\ window = [start |-> Some(1), end |-> Some(2)]
    /\ given = <<Event("C4", 0, 3), Event("C4", 1, 1)>>
    /\ refiltered = <<Event("C4", 0, 1)>>

\* The multiple of Quantum nearest to t: the value of round(t, 4) as the
\* claim reads it
NearestKey(t) ==
    CHOOSE k \in {Quantum * j : j \in 0..(t + 1)} :
        2 * (IF k >= t THEN k - t ELSE t - k) < Quantum

\* The chords one after the other, in grouper order
RECURSIVE Concatenated(_, _)
Concatenated(cs, g) ==
    IF g > Len(cs) THEN <<>> ELSE cs[g].members \o Concatenated(cs, g + 1)

\* C11: grouping is a partition keyed by round(start_time, 4).  Every
\* filtered event is in exactly one chord and no chord is empty; two events
\* share a chord exactly when their rounded starts are equal; the chords come
\* in order of the first occurrence of their key in the filtered list, the
\* members of a chord in input order; the chords concatenated hold every
\* filtered event once.
C11_GroupingIsPartition ==
    phase = "grouped" =>
        LET P == 1..Len(filtered)
            G == 1..Len(chords)
            all == Concatenated(chords, 1)
        IN  /\ \A p \in P :
                  Cardinality({g \in G : \E m \in DOMAIN chords[g].members :
                                             chords[g].members[m] = p}) = 1
            /\ \A g \in G : chords[g].members # <<>>
            /\ \A g \in G : \A m \in DOMAIN chords[g].members :
                  /\ chords[g].members[m] \in P
                  /\ NearestKey(filtered[chords[g].members[m]].start_time)
                        = chords[g].key
            /\ \A g1, g2 \in G : g1 # g2 => chords[g1].key # chords[g2].key
            /\ \A g1, g2 \in G :
                  g1 < g2 => chords[g1].members[1] < chords[g2].members[1]
            /\ \A g \in G : \A m1, m2 \in DOMAIN chords[g].members :
                  m1 < m2 => chords[g].members[m1] < chords[g].members[m2]
            /\ Len(all) = Len(filtered)
            /\ \A p \in P : \E x \in DOMAIN all : all[x] = p

\* The later key seen first, its chord gathered around an event of the
\* earlier key: starts 4, 1, 2 give the chords (1, 3) and (2)
C11_Witness ==
    /\ phase = "grouped"
    /\ Len(filtered) = 3
    /\ filtered[1].start_time = 4
    /\ filtered[2].start_time = 1
    /\ filtered[3].start_time = 2
    /\ chords = <<[key |-> Quantum, members |-> <<1, 3>>],
                  [key |-> 0, members |-> <<2>>]>>

\* The pixels of the rectangle of the given size at the given position
Pixels(position, size) ==
    (position[1]..(position[1] + size[1] - 1))
        \X (position[2]..(position[2] + size[2] - 1))

\* The rectangles of chord members 1..4 share no pixel
CornersDisjoint ==
    \A i, j \in 1..4 :
        i < j => Pixels(corners.corner_positions[i], corners.corner_size)
                   \cap Pixels(corners.corner_positions[j], corners.corner_size)
                 = {}

\* C12 as stated: for every output size and every chord_size_ratio in 0..1
\* the four corner rectangles of chord members 1..4 are pairwise
\* non-overlapping.
C12_CornersDisjointAnyRatio == phase = "laid" => CornersDisjoint

\* C12, amended: for every output size and every chord_size_ratio in
\* 0..0.5 the four corner rectangles of chord members 1..4 (position plus
\* floor(width*ratio) x floor(height*ratio) size) are pairwise
\* non-overlapping.
C12_CornersDisjointUpToHalf ==
    (phase = "laid"
       /\ 2 * corners.chord_size_ratio[1] <= corners.chord_size_ratio[2])
        => CornersDisjoint

\* A 6 x 4 frame at ratio 1/2: four 3 x 2 corners that tile the frame
C12_Witness ==
    /\ phase = "laid"
    /\ corners.output_size = <<6, 4>>
    /\ 2 * corners.chord_size_ratio[1] = corners.chord_size_ratio[2]
    /\ corners.corner_size = <<3, 2>>
    /\ corners.corner_positions = << <<0, 0>>, <<3, 0>>, <<0, 2>>, <<3, 2>> >>
    /\ CornersDisjoint

\* The layers a chord of n notes is to yield, and the members it is to drop
LayersOf(n) == IF n <= 5 THEN n ELSE 5
DroppedOf(n) == IF n <= 5 THEN 0 ELSE n - 5

\* The layers and dropped members of the chords before chord g
RECURSIVE LayersBefore(_)
LayersBefore(g) ==
    IF g <= 1 THEN 0
    ELSE LayersBefore(g - 1) + LayersOf(Len(chords[g - 1].members))

RECURSIVE DroppedUpTo(_)
DroppedUpTo(g) ==
    IF g < 1 THEN 0
    ELSE DroppedUpTo(g - 1) + DroppedOf(Len(chords[g].members))

\* Where member k (0-based) of a chord is to be placed, and at what size,
\* in a frame of the given size: the whole frame for member 0, then
\* top-left, top-right, bottom-left, bottom-right
PlacementOf(k, frame, ratio) ==
    LET w == (frame[1] * ratio[1]) \div ratio[2]
        h == (frame[2] * ratio[1]) \div ratio[2]
    IN  IF k = 0 THEN [position |-> <<0, 0>>, size |-> frame]
        ELSE IF k = 1 THEN [position |-> <<0, 0>>, size |-> <<w, h>>]
        ELSE IF k = 2 THEN [position |-> <<frame[1] - w, 0>>, size |-> <<w, h>>]
        ELSE IF k = 3 THEN [position |-> <<0, frame[2] - h>>, size |-> <<w, h>>]
        ELSE [position |-> <<frame[1] - w, frame[2] - h>>, size |-> <<w, h>>]

\* C13: in a render where every add_clip succeeds, member 0 of each chord
\* is placed full-frame at (0,0) with the output size, members 1..4 at
\* top-left, top-right, bottom-left, bottom-right with the corner size, and
\* members from index 5 on are dropped with a warning each; a chord of n
\* notes yields min(n,5) layers and max(n-5,0) warnings, and the chords after
\* it are processed all the same.
C13_ChordPlacement ==
    (Rendered /\ ~last.empty /\ last.exc \in {"none", "EncodeError"}) =>
        LET G == 1..Len(chords)
            frame == Val(composer.output_size)
        IN  /\ Len(composer.clips) = LayersBefore(Len(chords) + 1)
            /\ last.dropped = DroppedUpTo(Len(chords))
            /\ \A g \in G : \A k \in 0..(LayersOf(Len(chords[g].members)) - 1) :
                  LET layer == composer.clips[LayersBefore(g) + k + 1]
                      note == filtered[chords[g].members[k + 1]]
                      placement == PlacementOf(k, frame, call.chord_size_ratio)
                  IN  /\ layer.path = VideoPath(VideoDir, note.note_name)
                      /\ layer.start = filtered[chords[g].members[1]].start_time
                      /\ layer.position = placement.position
                      /\ layer.size = placement.size

\* A chord of six notes and a later note: five layers for the chord, one
\* warning, and the later note's layer after them
C13_Witness ==
    /\ Rendered
    /\ last.exc = "none"
    /\ Len(chords) = 2
    /\ Len(chords[1].members) = 6
    /\ Len(chords[2].members) = 1
    /\ Len(composer.clips) = 6
    /\ last.dropped = 1
    /\ composer.clips[6].start = filtered[chords[2].members[1]].start_time
    /\ composer.clips[3].position # composer.clips[4].position

\* The layers of final_clip that chord g contributed: positions in final_clip,
\* the background being the first
LayersOfChord(g) ==
    {1 + LayersBefore(g) + k : k \in 1..LayersOf(Len(chords[g].members))}

PlacedLayers ==
    {x \in [layer : 1..Len(composer.clips), g : 1..Len(chords), k : 0..4] :
        /\ x.k < LayersOf(Len(chords[x.g].members))
        /\ x.layer = LayersBefore(x.g) + x.k + 1}

NoteOfLayer(x) == filtered[chords[x.g].members[x.k + 1]]

\* C15 as stated: a note of duration d (as the window filter left it) under
\* sustain s is scheduled as a layer of duration d+s, whatever the natural
\* length of its source clip.
C15_LayerLastsNotePlusSustain ==
    Rendered =>
        \A x \in PlacedLayers :
            composer.clips[x.layer].duration
                = NoteOfLayer(x).duration + call.sustained

\* C15, amended: sustain s added to a note of duration d (as the window
\* filter left it) requests a layer of duration d+s, and the layer is
\* scheduled for d+s or for the natural length of its source clip,
\* whichever is shorter.
C15_LayerLastsNotePlusSustainOrClip ==
    Rendered =>
        \A x \in PlacedLayers :
            LET requested == NoteOfLayer(x).duration + call.sustained
                natural == NaturalDuration(composer.clips[x.layer].path)
            IN  composer.clips[x.layer].duration
                  = IF requested <= natural THEN requested ELSE natural

\* A note cut by the window to duration 1, sustained by 1, both on a clip
\* of length 2 (scheduled for 2) and on a clip of length 1 (scheduled for 1)
C15_Witness ==
    /\ Rendered
    /\ last.exc = "none"
    /\ IsNotNone(window.start)
    /\ call.sustained = 1
    /\ Len(given) = 2
    /\ \A i \in 1..2 : given[i].duration = 2
    /\ Len(filtered) = 2
    /\ \A i \in 1..2 : filtered[i].duration = 1
    /\ Len(composer.clips) = 2
    /\ \E x, y \in PlacedLayers :
          /\ NaturalDuration(composer.clips[x.layer].path) = 2
          /\ composer.clips[x.layer].duration = 2
          /\ NaturalDuration(composer.clips[y.layer].path) = 1
          /\ composer.clips[y.layer].duration = 1

\* The latest end among the given layers, 0 if there is none
MaxEnd(clips) ==
    IF clips = <<>> THEN 0
    ELSE CHOOSE e \in {clips[i].start + clips[i].duration : i \in DOMAIN clips} :
             \A i \in DOMAIN clips : clips[i].start + clips[i].duration <= e

\* C16: after any sequence of add_clip calls, a successful call has added
\* one layer, scheduled at the given start for the requested duration or the
\* clip's natural duration, whichever is shorter (the natural duration when
\* none is requested); max_end_time, which save gives the background as
\* its duration, is the maximum of start + duration over the layers added
\* so far; a failed call leaves the layer list, output size and max_end_time
\* as they were.
C16_TrimmedLayersAndMaxEnd ==
    /\ composer.max_end_time = MaxEnd(composer.clips)
    /\ final_clip # <<>> => final_clip[1].duration = MaxEnd(Tail(final_clip))
    /\ (last.op = "add_clip" /\ last.exc = "none") =>
          LET n == Len(call.before.clips)
              natural == NaturalDuration(call.video_path)
          IN  /\ Len(composer.clips) = n + 1
              /\ SubSeq(composer.clips, 1, n) = call.before.clips
              /\ composer.clips[n + 1].path = call.video_path
              /\ composer.clips[n + 1].start = call.start_time
              /\ composer.clips[n + 1].duration
                    = IF call.duration = None THEN natural
                      ELSE IF Val(call.duration) <= natural
                      THEN Val(call.duration)
                      ELSE natural
    /\ (last.op = "add_clip" /\ last.exc # "none") =>
          /\ composer.clips = call.before.clips
          /\ composer.output_size = call.before.output_size
          /\ composer.max_end_time = call.before.max_end_time

\* A layer ending at 2, then a clip of natural duration 1 asked for 3 at
\* start 0: scheduled for 1, max_end_time still 2
C16_Witness ==
    /\ last.op = "add_clip"
    /\ last.exc = "none"
    /\ Len(composer.clips) = 2
    /\ composer.clips[1].start + composer.clips[1].duration = 2
    /\ call.duration = Some(3)
    /\ call.start_time = 0
    /\ NaturalDuration(call.video_path) = 1
    /\ composer.clips[2].duration = 1
    /\ composer.max_end_time = 2

====
